---------------------------- MODULE Spec2Model ----------------------------
(***************************************************************************)
(* A model of the shepherd process supervisor (abonander/shepherd).         *)
(*                                                                         *)
(* Spec: the daemon's control thread (src/daemon/mod.rs), modelled step by  *)
(* step: the accept loop, one read per client of the service phase, the     *)
(* removal of closed connections and the health pass.  Every command        *)
(* handler is one action that runs from the read of the command line to     *)
(* the flush that ends match_op.  The supervised children, their            *)
(* LogCollector threads and the clients are the environment.                *)
(*                                                                         *)
(* SpecLog: one supervised process, its stdout pipe, its LogCollector       *)
(* channel and its log under Server::tail (src/daemon/server.rs).           *)
(*                                                                         *)
(* SpecClients: the list of open connections of the control thread with an  *)
(* empty registry.                                                         *)
(*                                                                         *)
(* SpecStop: one call of Server::stop, statement by statement.              *)
(*                                                                         *)
(* SpecRemote: a connected client (src/daemon/remote.rs, src/main.rs): the  *)
(* main thread in send_command and write_response, the watchdog thread     *)
(* and the daemon's end of the connection.                                  *)
(*                                                                         *)
(* SpecLoop: the control loop with clients that stay connected, some of     *)
(* which send nothing; reads return only when there is something to read.   *)
(*                                                                         *)
(* SpecDrain: one call of Server::tail while the child keeps writing and    *)
(* its LogCollector keeps filling the channel.                              *)
(*                                                                         *)
(* SpecStartup: the control thread from Daemon::start, which spawns the     *)
(* entries of start_servers, followed by the command handlers.              *)
(*                                                                         *)
(* Time is abstracted: a bounded wait (accept, Process::wait, the reads of  *)
(* the client) either sees its event or times out, chosen                   *)
(* nondeterministically.  In Spec, SpecLog and SpecClients the result of a  *)
(* read of a client connection is drawn from the results read_line can      *)
(* report (a line, a timeout, end of stream or failure).                    *)
(***************************************************************************)
EXTENDS Integers, Sequences, FiniteSets, TLC

(***************************************************************************)
(* Bounds of the model.                                                    *)
(***************************************************************************)
\* processes the operating system lets the daemon spawn (later spawns fail)
MaxSpawns == 2
\* connections the listener hands out during one run, daemon specification
MaxAccepts == 1
\* connections the listener hands out during one run, connection specification
MaxClients == 3
\* lines a child writes to its standard output, log specification
MaxOutLog == 84
\* lines the stdout pipe holds before the child blocks on its write
PipeCap == 2

(***************************************************************************)
(* Program constants.                                                      *)
(***************************************************************************)
\* server.rs:211, the capacity of the channel; server.rs:114 truncates the
\* log to the same number
MAX_LINES == 80
\* mod.rs:264
DEFAULT_LINE_COUNT == 20
\* mod.rs:132, the lines of log printed for a dead instance
HEALTH_TAIL == 5

Names == {"web", "db"}

Min(a, b) == IF a < b THEN a ELSE b

(***************************************************************************)
(* HashMap<String, V>: a function whose domain is the set of keys.          *)
(***************************************************************************)
EmptyMap == [k \in {} |-> 0]

MapGet(m, k) == m[k]

MapInsert(m, k, v) == [x \in DOMAIN m \cup {k} |-> IF x = k THEN v ELSE m[x]]

MapRemove(m, k) == [x \in DOMAIN m \ {k} |-> m[x]]

(***************************************************************************)
(* config.rs: ServerConfig and Config.  auto_restart is an Option<bool>;    *)
(* dir, command, args and stop_timeout do not influence the control flow    *)
(* (whether a spawn succeeds and how long a wait lasts are choices of the   *)
(* environment).                                                           *)
(***************************************************************************)
ServerConfig(auto, on_stop) == [auto_restart |-> auto, on_stop |-> on_stop]

\* The contents the configuration file can have when Config::load reads it.
ConfigFileA ==
    [start_servers |-> <<"web">>,
     servers |-> [n \in {"web", "db"} |->
                    IF n = "web" THEN ServerConfig("Some(true)", <<>>)
                                 ELSE ServerConfig("None", <<"save", "quit">>)]]

ConfigFileB ==
    [start_servers |-> <<"db", "web">>,
     servers |-> [n \in {"web"} |-> ServerConfig("Some(false)", <<"quit">>)]]

ConfigFileC ==
    [start_servers |-> <<>>,
     servers |-> [n \in {"db"} |-> ServerConfig("Some(true)", <<"quit">>)]]

ConfigFiles == {ConfigFileA, ConfigFileB, ConfigFileC}

(***************************************************************************)
(* server.rs: Server.  `alive` is the state of the child process that       *)
(* Process::signal(0) probes.  `pipe` holds the lines the child has         *)
(* written and the LogCollector has not read yet (0 is an empty line),      *)
(* `lines` the channel between the LogCollector and the control thread,     *)
(* `log` the log buffer.  `nout` counts the non-empty lines written, which  *)
(* are numbered 1, 2, ... in the order the child writes them.  `hist` is    *)
(* an auxiliary field: every line pushed on the log so far.                 *)
(***************************************************************************)
NewServer(pid, config) ==
    [pid |-> pid, config |-> config, alive |-> TRUE,
     pipe |-> <<>>, lines |-> <<>>, log |-> <<>>, nout |-> 0, hist |-> <<>>]

is_alive(instance) == instance.alive

\* Server::auto_restart with unwrap_or(true)
auto_restart_default_on(instance) ==
    instance.config.auto_restart # "Some(false)"

auto_restart(instance) ==
    IF instance.config.auto_restart = "None"
    THEN FALSE
    ELSE instance.config.auto_restart = "Some(true)"

NonEmptyLines(s) == SelectSeq(s, LAMBDA l : l # 0)

\* truncate_back keeping the front of the vector instead of its back
truncate_front(vec, len) ==
    IF Len(vec) > len THEN SubSeq(vec, 1, len) ELSE vec

truncate_back(vec, len) ==
    IF Len(vec) > len
    THEN LET offset == Len(vec) - len
         IN  SubSeq(vec, offset + 1, offset + len)
    ELSE vec

\* Server::tail slicing from the front of the log
tail_oldest(instance, n, more) ==
    LET drained == instance.lines \o NonEmptyLines(SubSeq(instance.pipe, 1, more))
        pushed  == instance.log \o drained
        log     == IF Len(pushed) > MAX_LINES
                   THEN SubSeq(pushed, Len(pushed) - MAX_LINES + 1, Len(pushed))
                   ELSE pushed
    IN  [instance |-> [instance EXCEPT
                          !.pipe = SubSeq(instance.pipe, more + 1, Len(instance.pipe)),
                          !.lines = <<>>,
                          !.log = log,
                          !.hist = instance.hist \o drained],
         ret |-> SubSeq(log, 1, Min(n, Len(log)))]

\* Server::tail(n).  The drain takes every line of the channel and, because
\* the LogCollector keeps sending while read_line polls, `more` further
\* lines of the pipe.  Returns the instance afterwards and the slice.
tail(instance, n, more) ==
    LET drained == instance.lines \o NonEmptyLines(SubSeq(instance.pipe, 1, more))
        pushed  == instance.log \o drained
        log     == truncate_back(pushed, MAX_LINES)
        offset  == IF n > Len(log) THEN 0 ELSE Len(log) - n
    IN  [instance |-> [instance EXCEPT
                          !.pipe = SubSeq(instance.pipe, more + 1, Len(instance.pipe)),
                          !.lines = <<>>,
                          !.log = log,
                          !.hist = instance.hist \o drained],
         ret |-> SubSeq(log, offset + 1, Len(log))]


(***************************************************************************)
(* Server::stop.  The environment decides how many of the on_stop           *)
(* commands can be written to the child's stdin (`sendOk`) and at which     *)
(* stage of the ladder the child exits (`exitAt`):                          *)
(*   "cmds"        while the on_stop commands are written or waited for     *)
(*   "before_term" after the first wait timed out, before signal_exit       *)
(*                 (with no on_stop: between the probe and signal_exit)     *)
(*   "term"        during the wait that follows the termination signal      *)
(*   "before_kill" after that wait timed out, before signal_kill            *)
(*   "kill"        during the wait that follows the kill signal             *)
(*   "never"       not within any of the waits                              *)
(* Process::signal fails for a process that has exited.  `sent` lists what  *)
(* the child was sent, in order.                                           *)
(***************************************************************************)
ExitStages == {"cmds", "before_term", "term", "before_kill", "kill", "never"}

StopOutcome(status, exit, alive, sent) ==
    [status |-> status, exit |-> exit, alive |-> alive, sent |-> sent]

stop(instance, sendOk, exitAt) ==
    LET on_stop == instance.config.on_stop
        cmds    == SubSeq(on_stop, 1, Min(sendOk, Len(on_stop)))
        asked   == on_stop # <<>>
    IN  IF ~is_alive(instance)
        THEN StopOutcome("Ok", "AlreadyStopped", FALSE, <<>>)
        ELSE IF asked /\ sendOk < Len(on_stop)
        THEN StopOutcome("Err", "", exitAt # "cmds", cmds)
        ELSE IF asked /\ exitAt = "cmds"
        THEN StopOutcome("Ok", "Stopped", FALSE, cmds)
        ELSE IF exitAt \in {"cmds", "before_term"}
        THEN StopOutcome("Err", "", FALSE, cmds)
        ELSE IF exitAt = "term"
        THEN StopOutcome("Ok", "Terminated", FALSE, Append(cmds, "SIGTERM"))
        ELSE IF exitAt = "before_kill"
        THEN StopOutcome("Err", "", FALSE, Append(cmds, "SIGTERM"))
        ELSE IF exitAt = "kill"
        THEN StopOutcome("Ok", "Killed", FALSE, cmds \o <<"SIGTERM", "SIGKILL">>)
        ELSE StopOutcome("Err", "", TRUE, cmds \o <<"SIGTERM", "SIGKILL">>)

\* The inputs of a stop of this instance followed by its drop that the
\* daemon specification draws: <<sendOk, exitAt, exits>>, where `exits` tells
\* whether a child that is still alive exits when the drop closes its pipes.
\* There is one input for every result the callers of stop can tell apart
\* (Stopped, Terminated, Killed, an error with the child dead, alive and
\* exiting, alive for good), and one where the first on_stop command cannot
\* be written.
StopInputs(instance) ==
    IF ~is_alive(instance)
    THEN {<<0, "never", TRUE>>}
    ELSE LET len == Len(instance.config.on_stop)
         IN  (IF len > 0 THEN {<<0, "never", TRUE>>, <<len, "cmds", TRUE>>} ELSE {})
             \cup {<<len, e, TRUE>> : e \in {"before_term", "term", "kill", "never"}}
             \cup {<<len, "never", FALSE>>}

(***************************************************************************)
(* Dropping a Server drops its Process, and std's Drop for Process closes   *)
(* the pipes of the child and waits, without timeout, for the child to      *)
(* exit.  The control thread is blocked for good when a Server is dropped   *)
(* whose child is alive and never exits (`exits` is the child's choice).    *)
(***************************************************************************)
DropBlocks(alive, exits) == alive /\ ~exits

(***************************************************************************)
(* The client side of a handler.  ClientStream is a BufferedStream: a       *)
(* write puts a line in the buffer (the response to one command is shorter  *)
(* than the buffer, so a write does not fail), a flush sends the buffer     *)
(* and fails when the connection is broken; a broken connection stays       *)
(* broken.  A handler's client I/O is a script of statements, each a line   *)
(* or a flush; `io` is the number of statements that succeed, so that       *)
(* statement io + 1, if there is one, is a flush that fails and ends the    *)
(* handler with an I/O error (kill_daemon ignores the error of stop_server  *)
(* and fails at its own flush, which comes next).                           *)
(***************************************************************************)
Msg(text, name) == [text |-> text, name |-> name, status |-> "", line |-> 0]

StatusMsg(text, name, status) ==
    [text |-> text, name |-> name, status |-> status, line |-> 0]

LogLine(name, l) == [text |-> "line", name |-> name, status |-> "", line |-> l]

Flush == Msg("<flush>", "")

\* the zero bytes kill_daemon writes after its last flush (mod.rs:347)
Sentinel == Msg("<64 zero bytes>", "")

list_ops == <<Msg("shepherd ops:", "")>>

\* the lines written into the stream by the statements that were executed
Written(script, io) ==
    SelectSeq(SubSeq(script, 1, Min(io, Len(script))), LAMBDA m : m # Flush)

\* the lines a successful flush has sent to the client
RECURSIVE LastFlush(_, _)
LastFlush(script, k) ==
    IF k = 0 THEN 0
    ELSE IF script[k] = Flush THEN k
    ELSE LastFlush(script, k - 1)

Delivered(script, io) ==
    SelectSeq(SubSeq(script, 1, LastFlush(script, Min(io, Len(script)))),
              LAMBDA m : m # Flush)

\* the numbers of successful statements a run of the script can have
FailPoints(script) ==
    {p \in 0..(Len(script) - 1) : script[p + 1] = Flush} \cup {Len(script)}

\* more statements than any handler executes: the connection never breaks
NoFail == 3 * Cardinality(Names) + MAX_LINES + 8

(***************************************************************************)
(* What a handler did: the registry and configuration it leaves, its        *)
(* script, its own result ("Ok", "Err" for an error that is not a client    *)
(* I/O error, "Killed"), and for the claims the calls it made: `stops` maps *)
(* each name on whose instance Server::stop was called to the outcome,      *)
(* `spawns` each name for which Server::spawn was called to its success,    *)
(* `sends` is the set of names to whose stdin Server::send_command wrote    *)
(* outside stop, `ret` the slice Server::tail returned, `blocked` whether   *)
(* the control thread is blocked in a drop.                                *)
(***************************************************************************)
Handled(srv, cfg, pid, script, own, stops, spawns, sends, ret, blocked) ==
    [servers |-> srv, config |-> cfg, nextPid |-> pid, script |-> script,
     own |-> own, stops |-> stops, spawns |-> spawns, sends |-> sends,
     ret |-> ret, blocked |-> blocked]

\* a handler that only answers
Answer(srv, cfg, pid, script) ==
    Handled(srv, cfg, pid, script, "Ok", EmptyMap, EmptyMap, {}, <<>>, FALSE)

\* Server::spawn: the process gets the next pid
SpawnResults(pid) == IF pid <= MaxSpawns THEN {TRUE, FALSE} ELSE {FALSE}

\* the values of `stopping` and `remote` where they are not in use
NoneAnswered == [unknown |-> {}, timeout |-> {}]
NoStop == [at |-> "none"]

NoRemote == [at |-> "none"]

VARIABLES
    config,      \* Daemon.config
    servers,     \* Daemon.servers, the registry
    nextPid,     \* the pid of the next process spawned
    clients,     \* start's `clients`: the open connections, by connection id
    nextClient,  \* the id of the next connection accepted
    pc,          \* where the control thread is
    idx,         \* manage_clients: the index of the client being read (1-based)
    closed,      \* manage_clients: `closed`, 0-based indices as in the code
    last,        \* auxiliary: what the last step of the control thread did
    answered,    \* auxiliary, per service phase: `unknown`, the connections
                 \* whose command was answered `Unrecognized command`, and
                 \* `timeout`, the connections whose read timed out
    iter,        \* auxiliary: `dead`, the pids of the registered processes
                 \* that had exited when the current loop iteration began,
                 \* and `stale`, those of `dead` of the previous iteration
                 \* that are still registered after its health pass
    stopping,    \* the call of Server::stop in progress (stop specification)
    remote       \* the client process: RemoteClient and its watchdog
                 \* (client specifications)

vars == <<config, servers, nextPid, clients, nextClient, pc, idx, closed, last,
          answered, iter, stopping, remote>>

Step(op, name, client, h, io, total) ==
    [op |-> op, name |-> name, client |-> client,
     wrote |-> Written(total, io), resp |-> Delivered(total, io),
     res |-> IF h.blocked THEN "Blocked"
             ELSE IF io < Len(total) THEN "Io"
             ELSE IF h.own = "Err" THEN "Io" ELSE h.own,
     stops |-> h.stops, spawns |-> h.spawns, sends |-> h.sends, ret |-> h.ret,
     arg |-> 0]

\* start_server treating a registered instance whose process has exited as
\* not running
start_server_unless_alive(server, io, spawnOk) ==
    IF server \in DOMAIN servers /\ servers[server].alive
    THEN Answer(servers, config, nextPid, <<Msg("already running!", server)>>)
    ELSE IF server \in DOMAIN config.servers
    THEN LET s1 == <<Msg("Starting...", server), Flush>>
         IN  IF io < 2
             THEN Answer(servers, config, nextPid, s1)
             ELSE IF spawnOk
             THEN Handled([n \in DOMAIN servers \cup {server} |->
                              IF n = server
                              THEN NewServer(nextPid, config.servers[server])
                              ELSE servers[n]],
                          config, nextPid + 1,
                          s1 \o <<Msg("started!", server)>>, "Ok",
                          EmptyMap, [n \in {server} |-> TRUE], {}, <<>>, FALSE)
             ELSE Handled(servers, config, nextPid,
                          s1 \o <<Msg("Error starting", server)>>, "Ok",
                          EmptyMap, [n \in {server} |-> FALSE], {}, <<>>, FALSE)
    ELSE Answer(servers, config, nextPid, <<Msg("No configuration for", server)>>)

(***************************************************************************)
(* Daemon::start_server (mod.rs:183-206), after the usage check.            *)
(***************************************************************************)
start_server(server, io, spawnOk) ==
    IF server \in DOMAIN servers
    THEN Answer(servers, config, nextPid, <<Msg("already running!", server)>>)
    ELSE IF server \in DOMAIN config.servers
    THEN LET s1 == <<Msg("Starting...", server), Flush>>
         IN  IF io < 2
             THEN Answer(servers, config, nextPid, s1)
             ELSE IF spawnOk
             THEN Handled(MapInsert(servers, server,
                                    NewServer(nextPid, MapGet(config.servers, server))),
                          config, nextPid + 1,
                          s1 \o <<Msg("started!", server)>>, "Ok",
                          EmptyMap, MapInsert(EmptyMap, server, TRUE), {}, <<>>, FALSE)
             ELSE Handled(servers, config, nextPid,
                          s1 \o <<Msg("Error starting", server)>>, "Ok",
                          EmptyMap, MapInsert(EmptyMap, server, FALSE), {}, <<>>, FALSE)
    ELSE Answer(servers, config, nextPid, <<Msg("No configuration for", server)>>)

(***************************************************************************)
(* The function stop_server (mod.rs:354-362), called with `before`          *)
(* statements of the handler's script already executed.  `tried` tells      *)
(* whether Server::stop was called, `alive` whether the child is alive      *)
(* afterwards, `ok` whether the function returned Ok(true).                 *)
(***************************************************************************)
stop_server(server, instance, io, before, sendOk, exitAt) ==
    LET s1  == <<Msg("Sending stop command to", server), Flush>>
        out == stop(instance, sendOk, exitAt)
    IN  IF io < before + 2
        THEN [script |-> s1, tried |-> FALSE, alive |-> instance.alive,
              ok |-> FALSE, out |-> out]
        ELSE [script |-> Append(s1, IF out.status = "Ok"
                                    THEN StatusMsg("stopped. Status:", server, out.exit)
                                    ELSE Msg("Failed to stop", server)),
              tried |-> TRUE, alive |-> out.alive,
              ok |-> out.status = "Ok", out |-> out]

\* what the auxiliary record keeps of a call of Server::stop
Stopped(out) == [status |-> out.status, exit |-> out.exit, alive |-> out.alive]

StopsOf(server, s) ==
    IF s.tried THEN MapInsert(EmptyMap, server, Stopped(s.out)) ELSE EmptyMap

\* Daemon::stop_server looking the instance up instead of removing it
Daemon_stop_server_get(server, io, sendOk, exitAt, exits) ==
    IF server \in DOMAIN servers
    THEN LET s == stop_server(server, servers[server], io, 0, sendOk, exitAt)
         IN  Handled([servers EXCEPT ![server].alive = s.alive], config, nextPid,
                     s.script, "Ok", StopsOf(server, s), EmptyMap, {}, <<>>, FALSE)
    ELSE Answer(servers, config, nextPid, <<Msg("No running instance of", server)>>)

(***************************************************************************)
(* Daemon::stop_server (mod.rs:208-220), after the usage check.  The        *)
(* instance is taken out of the registry before it is stopped and dropped   *)
(* when the handler returns.                                               *)
(***************************************************************************)
Daemon_stop_server(server, io, sendOk, exitAt, exits) ==
    IF server \in DOMAIN servers
    THEN LET s == stop_server(server, MapGet(servers, server), io, 0, sendOk, exitAt)
         IN  Handled(MapRemove(servers, server), config, nextPid, s.script, "Ok",
                     StopsOf(server, s), EmptyMap, {}, <<>>,
                     DropBlocks(s.alive, exits))
    ELSE Answer(servers, config, nextPid, <<Msg("No running instance of", server)>>)

\* restart_server going on to spawn after a stop that failed
restart_server_anyway(server, io, sendOk, exitAt, exits, spawnOk) ==
    LET registered == server \in DOMAIN servers
        s == IF registered
             THEN stop_server(server, MapGet(servers, server), io, 0, sendOk, exitAt)
             ELSE [script |-> <<Msg("was not running! Starting anyways...", server)>>,
                   tried |-> FALSE, alive |-> FALSE, ok |-> TRUE, out |-> <<>>]
        removed == MapRemove(servers, server)
        stops   == IF registered THEN StopsOf(server, s) ELSE EmptyMap
        blocked == registered /\ DropBlocks(s.alive, exits)
    IN  IF registered /\ (io < Len(s.script) \/ blocked)
        THEN \* stop_server failed: its I/O error is returned, Ok(false) ends the handler
             Handled(removed, config, nextPid, s.script, "Ok",
                     stops, EmptyMap, {}, <<>>, blocked)
        ELSE IF server \in DOMAIN config.servers
        THEN IF spawnOk
             THEN Handled(MapInsert(removed, server,
                                    NewServer(nextPid, MapGet(config.servers, server))),
                          config, nextPid + 1,
                          Append(s.script, Msg("started!", server)), "Ok",
                          stops, MapInsert(EmptyMap, server, TRUE), {}, <<>>, FALSE)
             ELSE Handled(removed, config, nextPid, s.script, "Err",
                          stops, MapInsert(EmptyMap, server, FALSE), {}, <<>>, FALSE)
        ELSE Handled(removed, config, nextPid,
                     Append(s.script, Msg("No configuration for ... Did the configuration change?", server)),
                     "Ok", stops, EmptyMap, {}, <<>>, FALSE)

(***************************************************************************)
(* Daemon::restart_server (mod.rs:222-246), after the usage check.          *)
(***************************************************************************)
restart_server(server, io, sendOk, exitAt, exits, spawnOk) ==
    LET registered == server \in DOMAIN servers
        s == IF registered
             THEN stop_server(server, MapGet(servers, server), io, 0, sendOk, exitAt)
             ELSE [script |-> <<Msg("was not running! Starting anyways...", server)>>,
                   tried |-> FALSE, alive |-> FALSE, ok |-> TRUE, out |-> <<>>]
        removed == MapRemove(servers, server)
        stops   == IF registered THEN StopsOf(server, s) ELSE EmptyMap
        blocked == registered /\ DropBlocks(s.alive, exits)
    IN  IF registered /\ (io < Len(s.script) \/ ~s.ok \/ blocked)
        THEN \* stop_server failed: its I/O error is returned, Ok(false) ends the handler
             Handled(removed, config, nextPid, s.script, "Ok",
                     stops, EmptyMap, {}, <<>>, blocked)
        ELSE IF server \in DOMAIN config.servers
        THEN IF spawnOk
             THEN Handled(MapInsert(removed, server,
                                    NewServer(nextPid, MapGet(config.servers, server))),
                          config, nextPid + 1,
                          Append(s.script, Msg("started!", server)), "Ok",
                          stops, MapInsert(EmptyMap, server, TRUE), {}, <<>>, FALSE)
             ELSE Handled(removed, config, nextPid, s.script, "Err",
                          stops, MapInsert(EmptyMap, server, FALSE), {}, <<>>, FALSE)
        ELSE Handled(removed, config, nextPid,
                     Append(s.script, Msg("No configuration for ... Did the configuration change?", server)),
                     "Ok", stops, EmptyMap, {}, <<>>, FALSE)

(***************************************************************************)
(* Server::write_status (server.rs:54-60).  `gone` holds the names whose    *)
(* process exits between the liveness probe and the read of /proc: for      *)
(* them ServerInfo::for_process fails and try! returns the error.           *)
(***************************************************************************)
write_status(server, instance, gone) ==
    IF is_alive(instance)
    THEN IF server \in gone
         THEN [script |-> <<>>, ok |-> FALSE, instance |-> [instance EXCEPT !.alive = FALSE]]
         ELSE [script |-> <<StatusMsg("Status:", server, "Running")>>, ok |-> TRUE,
               instance |-> instance]
    ELSE [script |-> <<StatusMsg("Status:", server, "Stopped")>>, ok |-> TRUE,
          instance |-> instance]

(***************************************************************************)
(* Daemon::server_status (mod.rs:248-261), after the usage check.           *)
(***************************************************************************)
server_status(server, io, gone) ==
    IF server \in DOMAIN servers
    THEN LET w == write_status(server, MapGet(servers, server), gone)
         IN  Handled(MapInsert(servers, server, w.instance), config, nextPid,
                     <<Msg("Server instance", server)>> \o w.script,
                     IF w.ok THEN "Ok" ELSE "Err",
                     EmptyMap, EmptyMap, {}, <<>>, FALSE)
    ELSE Answer(servers, config, nextPid, <<Msg("No running instance of", server)>>)

(***************************************************************************)
(* Daemon::server_tail (mod.rs:263-283), after the usage check; `lines` is  *)
(* the parsed count, DEFAULT_LINE_COUNT when absent or not a number.        *)
(***************************************************************************)
LinesOf(server, ls) == [i \in 1..Len(ls) |-> LogLine(server, ls[i])]

\* server_tail answering for a name that is not registered as for an
\* instance without output
server_tail_unchecked(server, lines, io, more) ==
    LET s1 == <<Msg("Last lines from", server), Flush>>
    IN  IF server \in DOMAIN servers
        THEN LET t == tail(servers[server], lines, more)
             IN  IF io < 2
                 THEN Answer(servers, config, nextPid, s1)
                 ELSE Handled([servers EXCEPT ![server] = t.instance], config, nextPid,
                              s1 \o LinesOf(server, t.ret), "Ok",
                              EmptyMap, EmptyMap, {}, t.ret, FALSE)
        ELSE Answer(servers, config, nextPid, s1)

server_tail(server, lines, io, more) ==
    IF server \in DOMAIN servers
    THEN LET s1 == <<Msg("Last lines from", server), Flush>>
             t  == tail(MapGet(servers, server), lines, more)
         IN  IF io < 2
             THEN Answer(servers, config, nextPid, s1)
             ELSE Handled(MapInsert(servers, server, t.instance), config, nextPid,
                          s1 \o LinesOf(server, t.ret), "Ok",
                          EmptyMap, EmptyMap, {}, t.ret, FALSE)
    ELSE Answer(servers, config, nextPid, <<Msg("No running instance of", server)>>)

(***************************************************************************)
(* Daemon::server_send (mod.rs:285-304), after the usage check; `sendOk`    *)
(* tells whether the write to the child's stdin succeeds.                   *)
(***************************************************************************)
server_send(server, io, sendOk, more) ==
    IF server \in DOMAIN servers
    THEN LET s1 == <<Msg("Sending command to", server), Flush>>
             t  == tail(MapGet(servers, server), 1, more)
         IN  IF io < 2
             THEN Answer(servers, config, nextPid, s1)
             ELSE IF ~sendOk
             THEN Handled(servers, config, nextPid, s1, "Err",
                          EmptyMap, EmptyMap, {server}, <<>>, FALSE)
             ELSE Handled(MapInsert(servers, server, t.instance), config, nextPid,
                          s1 \o LinesOf(server, t.ret), "Ok",
                          EmptyMap, EmptyMap, {server}, t.ret, FALSE)
    ELSE Answer(servers, config, nextPid, <<Msg("No running instance of", server)>>)

\* the orders in which a HashMap with the keys S can be iterated
Orders(S) ==
    {q \in [1..Cardinality(S) -> S] : \A i, j \in 1..Cardinality(S) : i # j => q[i] # q[j]}

(***************************************************************************)
(* Daemon::list_servers (mod.rs:306-312).                                   *)
(***************************************************************************)
list_servers(order) ==
    Answer(servers, config, nextPid,
           <<Msg("Servers:", "")>> \o [i \in 1..Len(order) |-> Msg("config", order[i])])

(***************************************************************************)
(* Daemon::list_instances (mod.rs:314-321): the loop from entry k on.       *)
(***************************************************************************)
RECURSIVE instances_loop(_, _, _, _)
instances_loop(order, k, gone, acc) ==
    IF k > Len(order) THEN acc
    ELSE LET n == order[k]
             w == write_status(n, MapGet(acc.servers, n), gone)
             next == [servers |-> MapInsert(acc.servers, n, w.instance),
                      script |-> acc.script \o <<Msg("instance", n)>> \o w.script,
                      ok |-> w.ok]
         IN  IF w.ok THEN instances_loop(order, k + 1, gone, next) ELSE next

list_instances(order, gone) ==
    LET r == instances_loop(order, 1, gone,
                            [servers |-> servers,
                             script |-> <<Msg("Running instances:", "")>>, ok |-> TRUE])
    IN  Handled(r.servers, config, nextPid, r.script, IF r.ok THEN "Ok" ELSE "Err",
                EmptyMap, EmptyMap, {}, <<>>, FALSE)

\* reload_config handing the reloaded configuration to the instances
reload_config_apply(io, loadOk, file) ==
    LET s1 == <<Msg("Reloading config. Will not affect existing server instances.", ""),
                Flush>>
    IN  IF io < 2
        THEN Answer(servers, config, nextPid, s1)
        ELSE IF loadOk
        THEN Answer([n \in DOMAIN servers |->
                        IF n \in DOMAIN file.servers
                        THEN [servers[n] EXCEPT !.config = file.servers[n]]
                        ELSE servers[n]],
                    file, nextPid, Append(s1, Msg("Config reloaded.", "")))
        ELSE Answer(servers, config, nextPid, Append(s1, Msg("Failed to load config", "")))

(***************************************************************************)
(* Daemon::reload_config (mod.rs:323-335).  `loadOk` tells whether          *)
(* Config::load succeeds, `file` is what it reads.                          *)
(***************************************************************************)
reload_config(io, loadOk, file) ==
    LET s1 == <<Msg("Reloading config. Will not affect existing server instances.", ""),
                Flush>>
    IN  IF io < 2
        THEN Answer(servers, config, nextPid, s1)
        ELSE IF loadOk
        THEN Answer(servers, file, nextPid, Append(s1, Msg("Config reloaded.", "")))
        ELSE Answer(servers, config, nextPid, Append(s1, Msg("Failed to load config", "")))

(***************************************************************************)
(* Daemon::kill_daemon (mod.rs:337-351).  kill_loop is the loop over        *)
(* self.servers.drain() from entry k on; `inp` gives the inputs of stop     *)
(* and drop for every instance.  An entry is dropped at the end of its      *)
(* iteration; when the                                                     *)
(* flush fails the Drain is dropped and with it the entries not yet         *)
(* visited.                                                                *)
(***************************************************************************)
RECURSIVE kill_loop(_, _, _, _, _)
kill_loop(order, k, io, inp, acc) ==
    IF k > Len(order) THEN acc
    ELSE LET n == order[k]
             s == stop_server(n, MapGet(servers, n), io, Len(acc.script),
                              inp[n][1], inp[n][2])
             script == acc.script \o s.script \o <<Flush>>
             stops  == IF s.tried THEN MapInsert(acc.stops, n, Stopped(s.out)) ELSE acc.stops
             rest   == {order[j] : j \in (k + 1)..Len(order)}
         IN  IF DropBlocks(s.alive, inp[n][3])
             THEN [script |-> acc.script \o s.script, stops |-> stops,
                   blocked |-> TRUE, aborted |-> TRUE,
                   servers |-> [m \in rest |-> servers[m]]]
             ELSE IF io < Len(script)
             THEN [script |-> script, stops |-> stops,
                   blocked |-> \E m \in rest : DropBlocks(servers[m].alive, inp[m][3]),
                   aborted |-> TRUE, servers |-> EmptyMap]
             ELSE kill_loop(order, k + 1, io, inp,
                            [script |-> script, stops |-> stops, blocked |-> FALSE,
                             aborted |-> FALSE, servers |-> EmptyMap])

kill_daemon(order, io, inp) ==
    LET r == kill_loop(order, 1, io, inp,
                       [script |-> <<Msg("Killing servers...", "")>>, stops |-> EmptyMap,
                        blocked |-> FALSE, aborted |-> FALSE, servers |-> EmptyMap])
    IN  IF r.aborted
        THEN Handled(r.servers, config, nextPid, r.script, "Ok",
                     r.stops, EmptyMap, {}, <<>>, r.blocked)
        ELSE Handled(EmptyMap, config, nextPid,
                     r.script \o <<Msg("Daemon exiting. Any servers that failed to stop will die now.", ""),
                                   Flush, Sentinel>>,
                     "Killed", r.stops, EmptyMap, {}, <<>>, FALSE)

(***************************************************************************)
(* Daemon::match_op (mod.rs:157-181): the arms that do not take a server.   *)
(***************************************************************************)
ops_cmd == Answer(servers, config, nextPid, list_ops)

unrecognized(op) ==
    Answer(servers, config, nextPid, <<Msg("Unrecognized command:", op)>> \o list_ops)

usage(op) == Answer(servers, config, nextPid, <<Msg("Usage:", op)>>)

(***************************************************************************)
(* Daemon::check_instances (mod.rs:126-155): the loop from entry k on.      *)
(* `spawnOk` holds the names whose spawn succeeds.  A replaced instance is  *)
(* dropped; its child is dead, so the drop returns.                         *)
(***************************************************************************)
RECURSIVE check_loop(_, _, _, _, _)
check_loop(order, k, spawnOk, more, acc) ==
    IF k > Len(order) THEN acc
    ELSE LET server   == order[k]
             instance == MapGet(acc.servers, server)
             t  == tail(instance, HEALTH_TAIL, Min(more, Len(instance.pipe)))
             ok == server \in spawnOk /\ acc.nextPid <= MaxSpawns
         IN  IF ~is_alive(instance) /\ auto_restart(instance)
             THEN IF server \in DOMAIN config.servers
                  THEN IF ok
                       THEN check_loop(order, k + 1, spawnOk, more,
                              [acc EXCEPT
                                 !.servers = MapInsert(acc.servers, server,
                                               NewServer(acc.nextPid, MapGet(config.servers, server))),
                                 !.nextPid = acc.nextPid + 1,
                                 !.spawns = MapInsert(acc.spawns, server, TRUE)])
                       ELSE check_loop(order, k + 1, spawnOk, more,
                              [acc EXCEPT
                                 !.servers = MapInsert(acc.servers, server, t.instance),
                                 !.spawns = MapInsert(acc.spawns, server, FALSE)])
                  ELSE check_loop(order, k + 1, spawnOk, more,
                         [acc EXCEPT
                            !.servers = MapInsert(acc.servers, server, t.instance),
                            !.to_remove = acc.to_remove \cup {server}])
             ELSE check_loop(order, k + 1, spawnOk, more, acc)

\* check_instances without the loop over to_remove
check_instances_keep(order, spawnOk, more) ==
    LET r == check_loop(order, 1, spawnOk, more,
                        [servers |-> servers, nextPid |-> nextPid,
                         spawns |-> EmptyMap, to_remove |-> {}])
    IN  Handled(r.servers, config, r.nextPid, <<>>, "Ok",
                EmptyMap, r.spawns, {}, <<>>, FALSE)

check_instances(order, spawnOk, more) ==
    LET r == check_loop(order, 1, spawnOk, more,
                        [servers |-> servers, nextPid |-> nextPid,
                         spawns |-> EmptyMap, to_remove |-> {}])
    IN  Handled([n \in DOMAIN r.servers \ r.to_remove |-> r.servers[n]],
                config, r.nextPid, <<>>, "Ok",
                EmptyMap, r.spawns, {}, <<>>, FALSE)

(***************************************************************************)
(* Daemon::start_servers (mod.rs:76-91): the loop from entry k on.          *)
(***************************************************************************)
RECURSIVE start_loop(_, _, _)
start_loop(k, spawnOk, acc) ==
    IF k > Len(config.start_servers) THEN acc
    ELSE LET server == config.start_servers[k]
             ok == server \in spawnOk /\ acc.nextPid <= MaxSpawns
         IN  IF server \in DOMAIN config.servers
             THEN IF ok
                  THEN start_loop(k + 1, spawnOk,
                         [servers |-> MapInsert(acc.servers, server,
                                        NewServer(acc.nextPid, MapGet(config.servers, server))),
                          nextPid |-> acc.nextPid + 1,
                          spawns |-> MapInsert(acc.spawns, server, TRUE)])
                  ELSE start_loop(k + 1, spawnOk,
                         [acc EXCEPT !.spawns = MapInsert(acc.spawns, server, FALSE)])
             ELSE start_loop(k + 1, spawnOk, acc)

start_servers(spawnOk) ==
    LET r == start_loop(1, spawnOk,
                        [servers |-> servers, nextPid |-> nextPid, spawns |-> EmptyMap])
    IN  Handled(r.servers, config, r.nextPid, <<>>, "Ok",
                EmptyMap, r.spawns, {}, <<>>, FALSE)

(***************************************************************************)
(* The removal loop that ends manage_clients (mod.rs:119-121).              *)
(* Vec::remove panics when the index is not below the length.               *)
(***************************************************************************)
RemoveAt(vec, i) == SubSeq(vec, 1, i) \o SubSeq(vec, i + 2, Len(vec))

RECURSIVE remove_closed(_, _)
remove_closed(vec, indices) ==
    IF indices = <<>> THEN [clients |-> vec, panic |-> FALSE]
    ELSE IF Head(indices) >= Len(vec) THEN [clients |-> vec, panic |-> TRUE]
    ELSE remove_closed(RemoveAt(vec, Head(indices)), Tail(indices))

(***************************************************************************)
(* The control thread.                                                     *)
(***************************************************************************)
Halted == {"done", "blocked", "panicked"}

\* the auxiliary record after a step that calls no handler
Quiet(op) ==
    [op |-> op, name |-> "", client |-> 0,
     wrote |-> <<>>, resp |-> <<>>, res |-> "Ok",
     stops |-> EmptyMap, spawns |-> EmptyMap, sends |-> {}, ret |-> <<>>,
     arg |-> 0]

Init ==
    /\ config \in ConfigFiles
    /\ servers = EmptyMap
    /\ nextPid = 1
    /\ clients = <<>>
    /\ nextClient = 1
    /\ pc = "startup"
    /\ idx = 1
    /\ closed = <<>>
    /\ last = Quiet("new")
    /\ answered = NoneAnswered
    /\ iter = [dead |-> {}, stale |-> {}]
    /\ stopping = NoStop
    /\ remote = NoRemote

\* the number of lines in the fullest stdout pipe
Piped(srv) ==
    IF \A n \in DOMAIN srv : srv[n].pipe = <<>> THEN 0
    ELSE CHOOSE k \in 1..PipeCap :
            /\ \E n \in DOMAIN srv : Len(srv[n].pipe) = k
            /\ \A n \in DOMAIN srv : Len(srv[n].pipe) <= k

\* the registered names whose process has exited, and the pids of these
DeadNames(srv) == {n \in DOMAIN srv : ~srv[n].alive}

DeadPids(srv) == {srv[n].pid : n \in DeadNames(srv)}

\* start (mod.rs:39)
StartServers ==
    /\ pc = "startup"
    /\ \E spawnOk \in SUBSET Names : \E h \in {start_servers(spawnOk)} :
              /\ servers' = h.servers
              /\ nextPid' = h.nextPid
              /\ last' = Step("start_servers", "", 0, h, 0, <<>>)
    /\ pc' = "accept"
    /\ iter' = [dead |-> DeadPids(servers'), stale |-> {}]
    /\ UNCHANGED <<config, clients, nextClient, idx, closed, answered,
                   stopping, remote>>

\* manage_clients (mod.rs:94-97): accept returned a connection
AcceptUpTo(bound) ==
    /\ pc = "accept"
    /\ nextClient <= bound
    /\ clients' = Append(clients, nextClient)
    /\ nextClient' = nextClient + 1
    /\ last' = Quiet("idle")
    /\ UNCHANGED <<config, servers, nextPid, pc, idx, closed, answered, iter,
                   stopping, remote>>

Accept == AcceptUpTo(MaxAccepts)

\* manage_clients (mod.rs:94-99): accept timed out or failed
AcceptDone ==
    /\ pc = "accept"
    /\ pc' = "service"
    /\ idx' = 1
    /\ closed' = <<>>
    /\ last' = Quiet("idle")
    /\ answered' = NoneAnswered
    /\ UNCHANGED <<config, servers, nextPid, clients, nextClient, iter,
                   stopping, remote>>

Serving == pc = "service" /\ idx <= Len(clients)

\* manage_clients (mod.rs:102, 113-116): the read of the client at idx did
\* not return a line (it timed out, or the connection is closed or failed)
ReadNothing ==
    /\ Serving
    /\ \E why \in {"timeout", "closed"} :
          /\ last' = Quiet(why)
          /\ answered' = IF why = "timeout"
                         THEN [answered EXCEPT !.timeout = @ \cup {clients[idx]}]
                         ELSE answered
    /\ closed' = Append(closed, idx - 1)
    /\ pc' = "served"
    /\ UNCHANGED <<config, servers, nextPid, clients, nextClient, idx, iter,
                   stopping, remote>>

\* manage_clients (mod.rs:103): a blank line
ReadBlank ==
    /\ Serving
    /\ last' = Quiet("blank")
    /\ pc' = "served"
    /\ UNCHANGED <<config, servers, nextPid, clients, nextClient, idx, closed,
                   answered, iter,
                   stopping, remote>>

\* manage_clients (mod.rs:101): the loop over the clients moves on
Advance ==
    /\ pc = "served"
    /\ pc' = "service"
    /\ idx' = idx + 1
    /\ last' = Quiet("idle")
    /\ UNCHANGED <<config, servers, nextPid, clients, nextClient, closed,
                   answered, iter,
                   stopping, remote>>

\* manage_clients (mod.rs:105-112) with match_op (mod.rs:157-181): the
\* handler H, as a function of the number of I/O statements that succeed,
\* followed by the flush of match_op when it returned Ok.
Total(h) == IF h.own = "Ok" THEN Append(h.script, Flush) ELSE h.script

Dispatch(op, name, H) ==
    /\ Serving
    /\ \E full \in {Total(H[NoFail])} : \E io \in FailPoints(full) :
       \E h \in {H[io]} :
          LET killed == ~h.blocked /\ h.own = "Killed" /\ io >= Len(Total(h))
          IN  /\ servers' = h.servers
              /\ config' = h.config
              /\ nextPid' = h.nextPid
              /\ last' = Step(op, name, clients[idx], h, io, Total(h))
              /\ pc' = IF h.blocked THEN "blocked"
                       ELSE IF killed THEN "closing" ELSE "served"
              /\ answered' = IF Head(full).text = "Unrecognized command:"
                             THEN [answered EXCEPT !.unknown = @ \cup {clients[idx]}]
                             ELSE answered
    /\ UNCHANGED <<clients, nextClient, idx, closed, iter,
                   stopping, remote>>

Start ==
    \E n \in Names, ok \in SpawnResults(nextPid) :
       Dispatch("start", n, [io \in 0..NoFail |-> start_server(n, io, ok)])

NoInstance == {<<0, "never", TRUE>>}

Stop ==
    \E n \in Names :
       \E si \in (IF n \in DOMAIN servers THEN StopInputs(servers[n]) ELSE NoInstance) :
          Dispatch("stop", n,
                   [io \in 0..NoFail |-> Daemon_stop_server(n, io, si[1], si[2], si[3])])

Restart ==
    \E n \in Names, ok \in SpawnResults(nextPid) :
       \E si \in (IF n \in DOMAIN servers THEN StopInputs(servers[n]) ELSE NoInstance) :
          Dispatch("restart", n,
                   [io \in 0..NoFail |-> restart_server(n, io, si[1], si[2], si[3], ok)])

Status ==
    \E n \in Names : \E gone \in {{}, {n}} :
       Dispatch("status", n, [io \in 0..NoFail |-> server_status(n, io, gone)])

TailCounts == {0, 1, DEFAULT_LINE_COUNT}

TailCmd ==
    \E n \in Names, lines \in TailCounts :
       \E more \in 0..(IF n \in DOMAIN servers THEN Len(servers[n].pipe) ELSE 0) :
          Dispatch("tail", n, [io \in 0..NoFail |-> server_tail(n, lines, io, more)])

Send ==
    \E n \in Names, sendOk \in BOOLEAN :
       \E more \in 0..(IF n \in DOMAIN servers THEN Len(servers[n].pipe) ELSE 0) :
          Dispatch("send", n, [io \in 0..NoFail |-> server_send(n, io, sendOk, more)])

Servers ==
    \E order \in Orders(DOMAIN config.servers) :
       Dispatch("servers", "", [io \in 0..NoFail |-> list_servers(order)])

Instances ==
    \E order \in Orders(DOMAIN servers), gone \in {{}} \cup {{n} : n \in Names} :
       Dispatch("instances", "", [io \in 0..NoFail |-> list_instances(order, gone)])

ReloadConfig ==
    \E loadOk \in BOOLEAN, file \in ConfigFiles :
       Dispatch("reload-config", "", [io \in 0..NoFail |-> reload_config(io, loadOk, file)])

KillDaemon ==
    \E order \in Orders(DOMAIN servers) :
       \E inp \in [DOMAIN servers -> UNION {StopInputs(servers[n]) : n \in DOMAIN servers}] :
          /\ \A n \in DOMAIN servers : inp[n] \in StopInputs(servers[n])
          /\ Dispatch("kill-daemon", "", [io \in 0..NoFail |-> kill_daemon(order, io, inp)])

Ops == Dispatch("ops", "", [io \in 0..NoFail |-> ops_cmd])

Unrecognized == Dispatch("foo", "", [io \in 0..NoFail |-> unrecognized("foo")])

Usage ==
    \E op \in {"start", "stop", "restart", "status", "tail", "send"} :
       Dispatch(op, "", [io \in 0..NoFail |-> usage(op)])

\* manage_clients (mod.rs:119-123)
RemoveClosed ==
    /\ pc = "service"
    /\ idx > Len(clients)
    /\ LET r == remove_closed(clients, closed)
       IN  /\ clients' = r.clients
           /\ pc' = IF r.panic THEN "panicked" ELSE "health"
    /\ last' = Quiet("idle")
    /\ UNCHANGED <<config, servers, nextPid, nextClient, idx, closed, answered, iter,
                   stopping, remote>>

\* start (mod.rs:42)
CheckInstances ==
    /\ pc = "health"
    /\ \E order \in Orders(DOMAIN servers), spawnOk \in SUBSET DeadNames(servers) :
       \E more \in 0..Min(PipeCap, Piped(servers)) :
          \E h \in {check_instances(order, spawnOk, more)} :
              /\ servers' = h.servers
              /\ nextPid' = h.nextPid
              /\ last' = Step("health", "", 0, h, 0, <<>>)
    /\ pc' = "accept"
    /\ iter' = [dead |-> DeadPids(servers'),
                stale |-> {servers'[n].pid : n \in DOMAIN servers'} \cap iter.dead]
    /\ UNCHANGED <<config, clients, nextClient, idx, closed, answered,
                   stopping, remote>>

\* start (mod.rs:45-52): manage_clients returned false
Close ==
    /\ pc = "closing"
    /\ pc' = "done"
    /\ clients' = <<>>
    /\ last' = Quiet("idle")
    /\ UNCHANGED <<config, servers, nextPid, nextClient, idx, closed, answered, iter,
                   stopping, remote>>

(***************************************************************************)
(* The environment: the children and their LogCollector threads            *)
(* (server.rs:213-228).                                                    *)
(***************************************************************************)
Running == pc \notin Halted

ChildStep(n, instance) ==
    /\ servers' = [servers EXCEPT ![n] = instance]
    /\ last' = Quiet("idle")
    /\ UNCHANGED <<config, nextPid, clients, nextClient, pc, idx, closed, answered, iter,
                   stopping, remote>>

ChildExit ==
    \E n \in DOMAIN servers :
       /\ Running
       /\ servers[n].alive
       /\ ChildStep(n, [servers[n] EXCEPT !.alive = FALSE])

\* the child writes a line, the next numbered one or an empty one
ChildWrite(n, bound, line) ==
    /\ Running
    /\ servers[n].alive
    /\ Len(servers[n].pipe) < PipeCap
    /\ line # 0 => servers[n].nout < bound
    /\ ChildStep(n, [servers[n] EXCEPT
                        !.pipe = Append(@, line),
                        !.nout = IF line # 0 THEN @ + 1 ELSE @])

\* read_lines_threaded sending without waiting: a line that finds the
\* channel full is lost
Collect_dropping ==
    \E n \in DOMAIN servers :
       /\ Running
       /\ servers[n].pipe # <<>>
       /\ ChildStep(n, [servers[n] EXCEPT
                           !.pipe = Tail(@),
                           !.lines = IF Head(servers[n].pipe) = 0 \/ Len(@) >= MAX_LINES
                                     THEN @
                                     ELSE Append(@, Head(servers[n].pipe))])

\* read_lines_threaded: the thread reads a line and, when it is not empty,
\* sends it; tx.send blocks while the channel is full
Collect ==
    \E n \in DOMAIN servers :
       /\ Running
       /\ servers[n].pipe # <<>>
       /\ IF Head(servers[n].pipe) = 0
          THEN ChildStep(n, [servers[n] EXCEPT !.pipe = Tail(@)])
          ELSE /\ Len(servers[n].lines) < MAX_LINES
               /\ ChildStep(n, [servers[n] EXCEPT
                                   !.pipe = Tail(@),
                                   !.lines = Append(@, Head(servers[n].pipe))])

Next ==
    \/ StartServers
    \/ Accept
    \/ AcceptDone
    \/ ReadNothing
    \/ ReadBlank
    \/ Advance
    \/ Start
    \/ Stop
    \/ Restart
    \/ Status
    \/ TailCmd
    \/ Send
    \/ Servers
    \/ Instances
    \/ ReloadConfig
    \/ KillDaemon
    \/ Ops
    \/ Unrecognized
    \/ Usage
    \/ RemoveClosed
    \/ CheckInstances
    \/ Close
    \/ ChildExit

Spec == Init /\ [][Next]_vars

(***************************************************************************)
(* SpecLog: the log of one supervised process.  The child writes up to      *)
(* MaxOutLog numbered lines and any number of empty ones, its LogCollector  *)
(* forwards them, and the control thread calls Server::tail.                *)
(***************************************************************************)
InitLog ==
    /\ config = ConfigFileA
    /\ servers = MapInsert(EmptyMap, "web", NewServer(1, MapGet(ConfigFileA.servers, "web")))
    /\ nextPid = 2
    /\ clients = <<>>
    /\ nextClient = 1
    /\ pc = "log"
    /\ idx = 1
    /\ closed = <<>>
    /\ last = Quiet("new")
    /\ answered = NoneAnswered
    /\ iter = [dead |-> {}, stale |-> {}]
    /\ stopping = NoStop
    /\ remote = NoRemote

OutputLog ==
    \E n \in DOMAIN servers : \E line \in {0, servers[n].nout + 1} :
       ChildWrite(n, MaxOutLog, line)

TailCountsLog ==
    {0, 1, HEALTH_TAIL, DEFAULT_LINE_COUNT, MAX_LINES - 1, MAX_LINES, MAX_LINES + 1}

TailLog ==
    \E n \in DOMAIN servers, lines \in TailCountsLog :
       \E more \in 0..Len(servers[n].pipe) :
          \E t \in {tail(servers[n], lines, more)} :
             /\ servers' = [servers EXCEPT ![n] = t.instance]
             /\ last' = [Quiet("tail") EXCEPT !.name = n, !.arg = lines, !.ret = t.ret]
             /\ UNCHANGED <<config, nextPid, clients, nextClient, pc, idx, closed,
                            answered, iter,
                   stopping, remote>>

NextLog ==
    \/ OutputLog
    \/ Collect
    \/ TailLog
    \/ ChildExit

SpecLog == InitLog /\ [][NextLog]_vars

(***************************************************************************)
(* SpecClients: the connection list.  The registry is empty and stays       *)
(* empty; up to MaxClients connections are accepted, and a client sends     *)
(* `foo`, `ops`, `kill-daemon`, a blank line or nothing.                    *)
(***************************************************************************)
InitClients ==
    /\ config = ConfigFileC
    /\ servers = EmptyMap
    /\ nextPid = 1
    /\ clients = <<>>
    /\ nextClient = 1
    /\ pc = "accept"
    /\ idx = 1
    /\ closed = <<>>
    /\ last = Quiet("new")
    /\ answered = NoneAnswered
    /\ iter = [dead |-> {}, stale |-> {}]
    /\ stopping = NoStop
    /\ remote = NoRemote

AcceptMany == AcceptUpTo(MaxClients)

NextClients ==
    \/ AcceptMany
    \/ AcceptDone
    \/ ReadNothing
    \/ ReadBlank
    \/ Advance
    \/ Unrecognized
    \/ Ops
    \/ KillDaemon
    \/ RemoveClosed
    \/ CheckInstances
    \/ Close

SpecClients == InitClients /\ [][NextClients]_vars

(***************************************************************************)
(* SpecStop: one call of Server::stop (server.rs:62-90) on one supervised   *)
(* process, statement by statement, while the child exits whenever it       *)
(* likes.  stopping.at is the statement to execute next:                    *)
(*   "call"  the liveness probe (63-65)                                     *)
(*   "cmds"  the next send_command of the on_stop loop (71-73)              *)
(*   "wait1" the wait after the commands (75-77)                            *)
(*   "term"  signal_exit (81)          "wait2" the wait after it (82-84)    *)
(*   "kill"  signal_kill (87)          "wait3" the wait after it (88)       *)
(* `sent` is what the child was sent, `waits` the outcomes of the waits,    *)
(* `died` the statement that was next when the child exited ("returned"     *)
(* when stop had returned).  A wait sees                                    *)
(* the exit of a child that has exited and times out otherwise, and         *)
(* Process::signal fails for a child that has exited.                       *)
(***************************************************************************)
StopCall == [at |-> "call", sent |-> <<>>, waits |-> <<>>, result |-> "", died |-> ""]

Returned(s, result) == [s EXCEPT !.at = "returned", !.result = result]

\* Server::stop with a termination signal right after the on_stop commands
stop_step_no_wait(s, instance, writeOk) ==
    LET on_stop == instance.config.on_stop
    IN  CASE s.at = "call" ->
               IF ~is_alive(instance)
               THEN Returned(s, "AlreadyStopped")
               ELSE [s EXCEPT !.at = IF on_stop # <<>> THEN "cmds" ELSE "term"]
          [] s.at = "cmds" ->
               IF ~writeOk
               THEN Returned(s, "Err")
               ELSE [s EXCEPT !.sent = Append(@, on_stop[Len(s.sent) + 1]),
                              !.at = IF Len(s.sent) + 1 = Len(on_stop)
                                     THEN "term" ELSE "cmds"]
          [] s.at = "term" ->
               IF ~is_alive(instance)
               THEN Returned(s, "Err")
               ELSE [s EXCEPT !.sent = Append(@, "SIGTERM"), !.at = "wait2"]
          [] s.at = "wait2" ->
               IF ~is_alive(instance)
               THEN Returned([s EXCEPT !.waits = Append(@, "exit")], "Terminated")
               ELSE [s EXCEPT !.waits = Append(@, "timeout"), !.at = "kill"]
          [] s.at = "kill" ->
               IF ~is_alive(instance)
               THEN Returned(s, "Err")
               ELSE [s EXCEPT !.sent = Append(@, "SIGKILL"), !.at = "wait3"]
          [] OTHER ->
               IF ~is_alive(instance)
               THEN Returned([s EXCEPT !.waits = Append(@, "exit")], "Killed")
               ELSE Returned([s EXCEPT !.waits = Append(@, "timeout")], "Err")

\* Server::stop that kills the child when an on_stop command cannot be written
stop_step_kill_on_error(s, instance, writeOk) ==
    LET on_stop == instance.config.on_stop
    IN  CASE s.at = "call" ->
               IF ~is_alive(instance)
               THEN Returned(s, "AlreadyStopped")
               ELSE [s EXCEPT !.at = IF on_stop # <<>> THEN "cmds" ELSE "term"]
          [] s.at = "cmds" ->
               IF ~writeOk
               THEN Returned([s EXCEPT !.sent = Append(@, "SIGKILL")], "Err")
               ELSE [s EXCEPT !.sent = Append(@, on_stop[Len(s.sent) + 1]),
                              !.at = IF Len(s.sent) + 1 = Len(on_stop)
                                     THEN "wait1" ELSE "cmds"]
          [] s.at = "wait1" ->
               IF ~is_alive(instance)
               THEN Returned([s EXCEPT !.waits = Append(@, "exit")], "Stopped")
               ELSE [s EXCEPT !.waits = Append(@, "timeout"), !.at = "term"]
          [] s.at = "term" ->
               IF ~is_alive(instance)
               THEN Returned(s, "Err")
               ELSE [s EXCEPT !.sent = Append(@, "SIGTERM"), !.at = "wait2"]
          [] s.at = "wait2" ->
               IF ~is_alive(instance)
               THEN Returned([s EXCEPT !.waits = Append(@, "exit")], "Terminated")
               ELSE [s EXCEPT !.waits = Append(@, "timeout"), !.at = "kill"]
          [] s.at = "kill" ->
               IF ~is_alive(instance)
               THEN Returned(s, "Err")
               ELSE [s EXCEPT !.sent = Append(@, "SIGKILL"), !.at = "wait3"]
          [] OTHER ->
               IF ~is_alive(instance)
               THEN Returned([s EXCEPT !.waits = Append(@, "exit")], "Killed")
               ELSE Returned([s EXCEPT !.waits = Append(@, "timeout")], "Err")

\* the next statement of Server::stop; `writeOk` tells whether a write to
\* the child's stdin succeeds
stop_step(s, instance, writeOk) ==
    LET on_stop == instance.config.on_stop
    IN  CASE s.at = "call" ->
               IF ~is_alive(instance)
               THEN Returned(s, "AlreadyStopped")
               ELSE [s EXCEPT !.at = IF on_stop # <<>> THEN "cmds" ELSE "term"]
          [] s.at = "cmds" ->
               IF ~writeOk
               THEN Returned(s, "Err")
               ELSE [s EXCEPT !.sent = Append(@, on_stop[Len(s.sent) + 1]),
                              !.at = IF Len(s.sent) + 1 = Len(on_stop)
                                     THEN "wait1" ELSE "cmds"]
          [] s.at = "wait1" ->
               IF ~is_alive(instance)
               THEN Returned([s EXCEPT !.waits = Append(@, "exit")], "Stopped")
               ELSE [s EXCEPT !.waits = Append(@, "timeout"), !.at = "term"]
          [] s.at = "term" ->
               IF ~is_alive(instance)
               THEN Returned(s, "Err")
               ELSE [s EXCEPT !.sent = Append(@, "SIGTERM"), !.at = "wait2"]
          [] s.at = "wait2" ->
               IF ~is_alive(instance)
               THEN Returned([s EXCEPT !.waits = Append(@, "exit")], "Terminated")
               ELSE [s EXCEPT !.waits = Append(@, "timeout"), !.at = "kill"]
          [] s.at = "kill" ->
               IF ~is_alive(instance)
               THEN Returned(s, "Err")
               ELSE [s EXCEPT !.sent = Append(@, "SIGKILL"), !.at = "wait3"]
          [] OTHER ->
               IF ~is_alive(instance)
               THEN Returned([s EXCEPT !.waits = Append(@, "exit")], "Killed")
               ELSE Returned([s EXCEPT !.waits = Append(@, "timeout")], "Err")

InitStop ==
    /\ \E file \in ConfigFiles : \E n \in DOMAIN file.servers :
          /\ config = file
          /\ servers = [m \in {n} |-> NewServer(1, file.servers[n])]
    /\ nextPid = 2
    /\ clients = <<>>
    /\ nextClient = 1
    /\ pc = "stop"
    /\ idx = 1
    /\ closed = <<>>
    /\ last = Quiet("new")
    /\ answered = NoneAnswered
    /\ iter = [dead |-> {}, stale |-> {}]
    /\ stopping = StopCall
    /\ remote = NoRemote

StopStep ==
    /\ pc = "stop"
    /\ stopping.at \notin {"returned", "dropped"}
    /\ \E n \in DOMAIN servers :
       \E writeOk \in (IF stopping.at = "cmds" THEN BOOLEAN ELSE {TRUE}) :
          stopping' = stop_step(stopping, servers[n], writeOk)
    /\ UNCHANGED <<config, servers, nextPid, clients, nextClient, pc, idx, closed,
                   last, answered, iter, remote>>

\* the caller drops the Server when stop has returned; the drop closes the
\* child's pipes and waits, without a timeout, until the child has exited
StopDrop ==
    /\ pc = "stop"
    /\ stopping.at = "returned"
    /\ \A n \in DOMAIN servers : ~servers[n].alive
    /\ stopping' = [stopping EXCEPT !.at = "dropped"]
    /\ UNCHANGED <<config, servers, nextPid, clients, nextClient, pc, idx, closed,
                   last, answered, iter, remote>>

\* the child exits
StopChildExit ==
    /\ pc = "stop"
    /\ stopping.at # "dropped"
    /\ \E n \in DOMAIN servers :
          /\ servers[n].alive
          /\ servers' = [servers EXCEPT ![n].alive = FALSE]
    /\ stopping' = [stopping EXCEPT !.died = stopping.at]
    /\ UNCHANGED <<config, nextPid, clients, nextClient, pc, idx, closed,
                   last, answered, iter, remote>>

NextStop == StopStep \/ StopDrop \/ StopChildExit

SpecStop == InitStop /\ [][NextStop]_vars

(***************************************************************************)
(* The client: RemoteDaemon (remote.rs:15-73) with its TimeoutThread        *)
(* (remote.rs:86-126), as used by main and command_loop (main.rs:19-63).    *)
(* SpecRemote runs the main thread of a connected client, which sends       *)
(* commands and drains the responses, together with the watchdog thread     *)
(* and the daemon's end of the connection.  `remote` holds                  *)
(*   at        where the main thread is: "idle" between two calls, "send"   *)
(*             in send_command between start() and stop(), "drain" at the   *)
(*             top of the loop of write_response, "copy" inside copy,       *)
(*             "break" after the break of the loop, "hung" in a guarded     *)
(*             call that never returns, "failed" after a call returned an   *)
(*             error and "exited" after main returned (in both the process  *)
(*             has ended);                                                  *)
(*   flag      timeout_bool;                                                *)
(*   wd        where the watchdog thread is: "park", "sleep", "aborted";    *)
(*   token     the unpark token of the watchdog thread;                     *)
(*   timeouts  the counter of write_response;                               *)
(*   inbox     what the daemon has sent and the client has not read;        *)
(*   open      whether the daemon's end of the connection is open;          *)
(* and, for the properties, `since`, the number of timeouts since the last  *)
(* data was read, `whole`, whether the flag has been set without            *)
(* interruption by one call since the watchdog began its current sleep,     *)
(* `late`, whether the last arming found the watchdog sleeping, and         *)
(* `cycles`, the number of disarmings (counted up to MaxCycles).            *)
(***************************************************************************)
\* the value of max_timeouts handed to write_response (MAX_TIMEOUTS in main.rs)
MaxTimeouts == 2

\* the number of unread chunks the connection holds
MaxInbox == 2

MaxCycles == 2

\* RemoteDaemon::connect (remote.rs:21-31)
Connected ==
    [at |-> "idle", flag |-> FALSE, wd |-> "park", token |-> FALSE,
     timeouts |-> 0, inbox |-> <<>>, open |-> TRUE,
     since |-> 0, whole |-> FALSE, late |-> FALSE, cycles |-> 0]

\* TimeoutThread::start (remote.rs:118-121)
TimeoutThread_start(r) ==
    [r EXCEPT !.flag = TRUE, !.token = TRUE,
              !.whole = FALSE, !.late = (r.wd = "sleep")]

\* TimeoutThread::stop (remote.rs:123-125)
TimeoutThread_stop(r) ==
    [r EXCEPT !.flag = FALSE, !.whole = FALSE,
              !.cycles = IF r.flag THEN Min(@ + 1, MaxCycles) ELSE @]

\* the watchdog thread giving up after the first sleep that found the flag
\* cleared
watchdog_once(flag) == IF flag THEN "aborted" ELSE "ended"

\* the closure of TimeoutThread::new (remote.rs:99-111) after its sleep
watchdog_check(flag) == IF flag THEN "aborted" ELSE "park"

(***************************************************************************)
(* One read of copy inside write_response (remote.rs:57-68).  Data is       *)
(* written to the sink and copy reads on; at the end of the stream copy     *)
(* returns Ok and the loop goes round; a timeout is counted and leaves the  *)
(* loop when the counter exceeds max_timeouts; any other error is returned  *)
(* by try!.                                                                 *)
(***************************************************************************)
copy_read(r, max_timeouts, err) ==
    IF r.inbox # <<>>
    THEN [r EXCEPT !.inbox = Tail(@), !.since = 0]
    ELSE IF err
    THEN [r EXCEPT !.at = "failed"]
    ELSE IF ~r.open
    THEN [TimeoutThread_stop(r) EXCEPT !.at = "drain"]
    ELSE LET t == [r EXCEPT !.timeouts = @ + 1, !.since = @ + 1]
         IN  IF t.timeouts > max_timeouts
             THEN [t EXCEPT !.at = "break"]
             ELSE [TimeoutThread_stop(t) EXCEPT !.at = "drain"]

InitRemote ==
    /\ config = ConfigFileA
    /\ servers = EmptyMap
    /\ nextPid = 1
    /\ clients = <<>>
    /\ nextClient = 1
    /\ pc = "remote"
    /\ idx = 1
    /\ closed = <<>>
    /\ last = Quiet("new")
    /\ answered = NoneAnswered
    /\ iter = [dead |-> {}, stale |-> {}]
    /\ stopping = NoStop
    /\ remote = Connected

\* the client process runs
Alive == pc = "remote" /\ remote.at \notin {"failed", "exited"} /\ remote.wd # "aborted"

Rest == <<config, servers, nextPid, clients, nextClient, pc, idx, closed, last,
          answered, iter, stopping>>

\* send_command (remote.rs:45-47): the watchdog is armed
SendCommand ==
    /\ Alive /\ remote.at = "idle"
    /\ remote' = [TimeoutThread_start(remote) EXCEPT !.at = "send"]
    /\ UNCHANGED Rest

\* send_command (remote.rs:47-50) returns; on success main or command_loop
\* calls write_response (remote.rs:53-55)
SendDone ==
    /\ Alive /\ remote.at = "send"
    /\ \E ok \in BOOLEAN :
          remote' = [TimeoutThread_stop(remote) EXCEPT
                        !.at = IF ok THEN "drain" ELSE "failed",
                        !.timeouts = 0, !.since = 0]
    /\ UNCHANGED Rest

\* write_response (remote.rs:57-58): the loop arms the watchdog and calls copy
CopyStart ==
    /\ Alive /\ remote.at = "drain"
    /\ remote' = [TimeoutThread_start(remote) EXCEPT !.at = "copy"]
    /\ UNCHANGED Rest

\* write_response (remote.rs:59-67)
CopyRead ==
    /\ Alive /\ remote.at = "copy"
    /\ \E err \in BOOLEAN : remote' = copy_read(remote, MaxTimeouts, err)
    /\ UNCHANGED Rest

\* write_response (remote.rs:69-71) after the break
DrainReturn ==
    /\ Alive /\ remote.at = "break"
    /\ remote' = [TimeoutThread_stop(remote) EXCEPT !.at = "idle"]
    /\ UNCHANGED Rest

\* the flush of send_command or the write of copy to the sink never returns
Hang ==
    /\ Alive /\ remote.at \in {"send", "copy"}
    /\ remote' = [remote EXCEPT !.at = "hung"]
    /\ UNCHANGED Rest

\* main (main.rs:36-46): no further command
Exit ==
    /\ Alive /\ remote.at = "idle"
    /\ remote' = [remote EXCEPT !.at = "exited"]
    /\ UNCHANGED Rest

\* the watchdog thread (remote.rs:101-102): park returns, the sleep begins
WatchdogWake ==
    /\ Alive /\ remote.wd = "park" /\ remote.token
    /\ remote' = [remote EXCEPT !.wd = "sleep", !.token = FALSE, !.whole = remote.flag]
    /\ UNCHANGED Rest

\* the watchdog thread (remote.rs:102-109): the sleep is over
WatchdogCheck ==
    /\ Alive /\ remote.wd = "sleep"
    /\ remote' = [remote EXCEPT !.wd = watchdog_check(remote.flag)]
    /\ UNCHANGED Rest

\* the daemon flushes a part of a response (mod.rs:180)
DaemonWrites ==
    /\ Alive /\ remote.open /\ Len(remote.inbox) < MaxInbox
    /\ remote' = [remote EXCEPT !.inbox = Append(@, "text")]
    /\ UNCHANGED Rest

\* the daemon ends after kill-daemon (mod.rs:344-350, 45-52) and closes the
\* connection; the zero bytes, written after the last flush, reach the
\* client only if the buffer still gets through when the stream is dropped
DaemonCloses ==
    /\ Alive /\ remote.open /\ Len(remote.inbox) < MaxInbox
    /\ \E sent \in BOOLEAN :
          remote' = [remote EXCEPT
                        !.inbox = IF sent THEN Append(@, "sentinel") ELSE @,
                        !.open = FALSE]
    /\ UNCHANGED Rest

MainThread ==
    SendCommand \/ SendDone \/ CopyStart \/ CopyRead \/ DrainReturn \/ Exit

NextRemote ==
    \/ MainThread
    \/ Hang
    \/ WatchdogWake
    \/ WatchdogCheck
    \/ DaemonWrites
    \/ DaemonCloses

\* both threads of the client are scheduled by the operating system
SpecRemote ==
    /\ InitRemote
    /\ [][NextRemote]_vars
    /\ WF_vars(WatchdogWake)
    /\ WF_vars(WatchdogCheck)
    /\ WF_vars(MainThread)

(***************************************************************************)
(* SpecLoop: the control loop of start (mod.rs:40-43) with clients that     *)
(* stay connected.  remote.silent holds the connections whose client sends  *)
(* nothing; every other client has a command line waiting whenever its      *)
(* connection is read.  The streams pushed by manage_clients (mod.rs:95)    *)
(* have no timeout: set_timeout is called on the acceptor only (mod.rs:34), *)
(* so client.read_line() (mod.rs:102) returns when the client has sent a    *)
(* line or closed the connection, and not before.                           *)
(***************************************************************************)
InitLoop ==
    /\ config = ConfigFileA
    /\ servers = EmptyMap
    /\ nextPid = 1
    /\ clients = <<>>
    /\ nextClient = 1
    /\ pc = "startup"
    /\ idx = 1
    /\ closed = <<>>
    /\ last = Quiet("new")
    /\ answered = NoneAnswered
    /\ iter = [dead |-> {}, stale |-> {}]
    /\ stopping = NoStop
    /\ \E silent \in SUBSET (1..MaxClients) :
          remote = [at |-> "clients", silent |-> silent]

\* read_line on the connection at idx returns a line
ReadReturns == Serving /\ clients[idx] \notin remote.silent

LoopOps == ReadReturns /\ Ops

LoopUnrecognized == ReadReturns /\ Unrecognized

\* the control thread
ControlThread ==
    \/ StartServers
    \/ AcceptMany
    \/ AcceptDone
    \/ LoopOps
    \/ LoopUnrecognized
    \/ Advance
    \/ RemoveClosed
    \/ CheckInstances

NextLoop == ControlThread \/ ChildExit

\* the control thread runs whenever it is not waiting in a system call
SpecLoop == InitLoop /\ [][NextLoop]_vars /\ WF_vars(ControlThread)

(***************************************************************************)
(* SpecDrain: the loop of Server::tail (server.rs:109-112) poll by poll,    *)
(* for one supervised process whose child keeps writing.  pc is "tail"      *)
(* before a call of tail, "drain" in the loop and "drained" when read_line  *)
(* has returned None.  The lines carry no numbers here, and of the log the  *)
(* loop keeps the last MAX_LINES lines only, which is what truncate_back    *)
(* (server.rs:114) leaves of it: the length the log reaches during the      *)
(* loop is not modelled.                                                    *)
(***************************************************************************)
\* Server::read_line (server.rs:97-107): try_recv is polled for timeout_ms;
\* a line that is in the channel, or enters it in that time, is returned
read_line(instance) ==
    IF instance.lines # <<>>
    THEN [some |-> TRUE, line |-> Head(instance.lines),
          instance |-> [instance EXCEPT !.lines = Tail(@)]]
    ELSE [some |-> FALSE, line |-> 0, instance |-> instance]

InitDrain ==
    /\ config = ConfigFileA
    /\ servers = MapInsert(EmptyMap, "web", NewServer(1, MapGet(ConfigFileA.servers, "web")))
    /\ nextPid = 2
    /\ clients = <<>>
    /\ nextClient = 1
    /\ pc = "tail"
    /\ idx = 1
    /\ closed = <<>>
    /\ last = Quiet("new")
    /\ answered = NoneAnswered
    /\ iter = [dead |-> {}, stale |-> {}]
    /\ stopping = NoStop
    /\ remote = NoRemote

DrainRest == <<config, nextPid, clients, nextClient, idx, closed, answered, iter,
               stopping, remote>>

\* the child writes a line
OutputDrain ==
    \E n \in DOMAIN servers :
       /\ servers[n].alive
       /\ Len(servers[n].pipe) < PipeCap
       /\ ChildStep(n, [servers[n] EXCEPT !.pipe = Append(@, 1)])

\* Server::tail is called (server.rs:109)
TailBegin ==
    /\ pc = "tail"
    /\ pc' = "drain"
    /\ last' = Quiet("idle")
    /\ UNCHANGED servers
    /\ UNCHANGED DrainRest

\* one turn of `while let Some(line) = self.read_line(100)` (server.rs:110-112)
DrainPoll ==
    /\ pc = "drain"
    /\ \E n \in DOMAIN servers : \E r \in {read_line(servers[n])} :
          IF r.some
          THEN /\ servers' = [servers EXCEPT ![n] =
                                 [r.instance EXCEPT
                                     !.log = truncate_back(Append(@, r.line), MAX_LINES)]]
               /\ pc' = "drain"
          ELSE /\ servers' = servers
               /\ pc' = "drained"
    /\ last' = Quiet("idle")
    /\ UNCHANGED DrainRest

\* Server::tail returns (server.rs:114-122)
TailEnd ==
    /\ pc = "drained"
    /\ pc' = "tail"
    /\ last' = Quiet("tail")
    /\ UNCHANGED servers
    /\ UNCHANGED DrainRest

TailThread == TailBegin \/ DrainPoll \/ TailEnd

NextDrain ==
    \/ TailThread
    \/ OutputDrain
    \/ Collect
    \/ ChildExit

\* the control thread runs
SpecDrain == InitDrain /\ [][NextDrain]_vars /\ WF_vars(TailThread)

(***************************************************************************)
(* SpecStartup: Daemon::start_servers (mod.rs:76-91) entry by entry,        *)
(* followed by the control loop with start, stop, restart and kill-daemon.  *)
(* start_servers is a Vec<String> of the configuration file (config.rs:52)  *)
(* and may name a server more than once.  While pc = "startup", idx is the  *)
(* position in config.start_servers.                                        *)
(***************************************************************************)
ConfigFileD ==
    [start_servers |-> <<"web", "web">>,
     servers |-> [n \in {"web"} |-> ServerConfig("Some(true)", <<>>)]]

(***************************************************************************)
(* One turn of the loop of start_servers for `server` (mod.rs:77-90).       *)
(* HashMap::insert returns the instance it replaces, which is dropped at    *)
(* the end of the statement (mod.rs:83).                                    *)
(***************************************************************************)
start_servers_entry(server, ok, exits) ==
    IF server \in DOMAIN config.servers /\ ok
    THEN LET replaced == server \in DOMAIN servers /\ servers[server].alive
         IN  [servers |-> MapInsert(servers, server,
                                    NewServer(nextPid, MapGet(config.servers, server))),
              nextPid |-> nextPid + 1,
              spawns  |-> MapInsert(EmptyMap, server, TRUE),
              blocked |-> replaced /\ DropBlocks(TRUE, exits)]
    ELSE [servers |-> servers, nextPid |-> nextPid,
          spawns  |-> IF server \in DOMAIN config.servers
                      THEN MapInsert(EmptyMap, server, FALSE) ELSE EmptyMap,
          blocked |-> FALSE]

InitStartup ==
    /\ config \in {ConfigFileA, ConfigFileD}
    /\ servers = EmptyMap
    /\ nextPid = 1
    /\ clients = <<>>
    /\ nextClient = 1
    /\ pc = "startup"
    /\ idx = 1
    /\ closed = <<>>
    /\ last = Quiet("new")
    /\ answered = NoneAnswered
    /\ iter = [dead |-> {}, stale |-> {}]
    /\ stopping = NoStop
    /\ remote = NoRemote

\* start_servers (mod.rs:77-90): the next entry of the list
AutoStart ==
    /\ pc = "startup"
    /\ idx <= Len(config.start_servers)
    /\ \E ok \in SpawnResults(nextPid), exits \in BOOLEAN :
       \E r \in {start_servers_entry(config.start_servers[idx], ok, exits)} :
          /\ servers' = r.servers
          /\ nextPid' = r.nextPid
          /\ pc' = IF r.blocked THEN "blocked" ELSE "startup"
          /\ last' = [Quiet("start_servers") EXCEPT
                         !.name = config.start_servers[idx], !.spawns = r.spawns]
    /\ idx' = idx + 1
    /\ UNCHANGED <<config, clients, nextClient, closed, answered, iter,
                   stopping, remote>>

\* start (mod.rs:39-41): the list is done, the loop begins
AutoDone ==
    /\ pc = "startup"
    /\ idx > Len(config.start_servers)
    /\ pc' = "accept"
    /\ idx' = 1
    /\ last' = Quiet("idle")
    /\ iter' = [dead |-> DeadPids(servers), stale |-> {}]
    /\ UNCHANGED <<config, servers, nextPid, clients, nextClient, closed, answered,
                   stopping, remote>>

NextStartup ==
    \/ AutoStart
    \/ AutoDone
    \/ Accept
    \/ AcceptDone
    \/ ReadNothing
    \/ Advance
    \/ Start
    \/ Stop
    \/ Restart
    \/ KillDaemon
    \/ RemoveClosed
    \/ CheckInstances
    \/ Close
    \/ ChildExit

SpecStartup == InitStartup /\ [][NextStartup]_vars

(***************************************************************************)
(* The properties.                                                         *)
(***************************************************************************)
Lines(seq) == {seq[i] : i \in 1..Len(seq)}

\* the step is the dispatch of the command `op`
Dispatched(op) == Serving /\ last'.op = op

\* the step is a health pass
HealthPass == pc = "health" /\ pc' = "accept"

NoCalls(l) == l.stops = EmptyMap /\ l.spawns = EmptyMap /\ l.sends = {}

\* C1: dispatching stop, status, tail or send with a name that is not a key
\* of the registry writes the line `No running instance of "<name>"` to the
\* issuing client (and delivers it when the connection is sound) and changes
\* nothing else: the registry with every supervised process, the active
\* configuration and the pid counter are unchanged, and Server::stop,
\* Server::spawn and Server::send_command are not called.
C1_NoInstanceStep ==
    \A op \in {"stop", "status", "tail", "send"} :
       (Dispatched(op) /\ last'.name \in Names \ DOMAIN servers)
       => /\ last'.wrote = <<Msg("No running instance of", last'.name)>>
          /\ last'.res = "Ok" => last'.resp = last'.wrote
          /\ last'.client = clients[idx]
          /\ servers' = servers
          /\ config' = config
          /\ nextPid' = nextPid
          /\ NoCalls(last')
          /\ pc' = "served"

C1_NoInstance == [][C1_NoInstanceStep]_vars

\* `tail db` was answered with the line while db is not registered and
\* another instance is
C1_Witness ==
    /\ last.op = "tail"
    /\ last.name = "db"
    /\ DOMAIN servers = {"web"}
    /\ last.resp = <<Msg("No running instance of", "db")>>

\* C2: dispatching `start <name>` while <name> is a key of the registry,
\* whether its process is alive or has exited, calls no spawn, leaves the
\* registry as it is and writes only the "already running" line.
C2_AlreadyRunningStep ==
    (Dispatched("start") /\ last'.name \in DOMAIN servers)
    => /\ last'.wrote = <<Msg("already running!", last'.name)>>
       /\ servers' = servers
       /\ nextPid' = nextPid
       /\ NoCalls(last')

C2_AlreadyRunning == [][C2_AlreadyRunningStep]_vars

\* `start web` was answered "already running" while the registered process
\* of web has exited
C2_Witness ==
    /\ last.op = "start"
    /\ last.name = "web"
    /\ "web" \in DOMAIN servers
    /\ ~servers["web"].alive
    /\ last.resp = <<Msg("already running!", "web")>>

\* C3: right after a `stop <name>` whose Server::stop succeeded the name is
\* not a key of the registry; right after a `start <name>` whose spawn
\* succeeded it is a key, with a live process; a start of an unregistered
\* name whose spawn failed or which has no configuration leaves the name
\* absent; and `instances`, when it completes, lists exactly the keys.
C3_MembershipStep ==
    /\ (Dispatched("stop") /\ last'.name \in DOMAIN last'.stops
          /\ last'.stops[last'.name].status = "Ok")
       => last'.name \notin DOMAIN servers'
    /\ (Dispatched("start") /\ last'.name \in DOMAIN last'.spawns
          /\ last'.spawns[last'.name])
       => /\ last'.name \in DOMAIN servers'
          /\ servers'[last'.name].alive
          /\ servers'[last'.name].pid = nextPid
    /\ (Dispatched("start") /\ last'.name \in Names \ DOMAIN servers
          /\ \/ last'.name \notin DOMAIN config.servers
             \/ last'.name \in DOMAIN last'.spawns /\ ~last'.spawns[last'.name])
       => last'.name \notin DOMAIN servers'
    /\ (Dispatched("instances") /\ last'.res = "Ok")
       => {m.name : m \in {l \in Lines(last'.resp) : l.text = "instance"}}
             = DOMAIN servers'

C3_Membership == [][C3_MembershipStep]_vars

\* `stop web` ended with the child terminated by the signal and web is not
\* registered, while db still is
C3_Witness ==
    /\ last.op = "stop"
    /\ last.name = "web"
    /\ "web" \in DOMAIN last.stops
    /\ last.stops["web"].status = "Ok"
    /\ last.stops["web"].exit = "Terminated"
    /\ DOMAIN servers = {"db"}

\* C4: tail(n) returns exactly min(n, b) lines, b being the length of the
\* log after the drain and the truncation of that call, and they are the
\* last lines received, oldest first.
C4_Tail ==
    last.op = "tail"
    => LET instance == servers[last.name]
           k == Len(last.ret)
           h == Len(instance.hist)
       IN  /\ k = Min(last.arg, Len(instance.log))
           /\ k <= h
           /\ last.ret = SubSeq(instance.hist, h - k + 1, h)

\* tail(20) returned 20 lines after the child produced more than 80
C4_Witness ==
    /\ last.op = "tail"
    /\ last.arg = DEFAULT_LINE_COUNT
    /\ Len(last.ret) = DEFAULT_LINE_COUNT
    /\ Len(servers[last.name].hist) > MAX_LINES

C6_ReloadStep ==
    Dispatched("reload-config")
    => /\ servers' = servers
       /\ nextPid' = nextPid
       /\ NoCalls(last')
       /\ Msg("Config reloaded.", "") \notin Lines(last'.wrote) => config' = config
       /\ Msg("Failed to load config", "") \in Lines(last'.wrote) => config' = config

C6_Reload == [][C6_ReloadStep]_vars

\* a reload succeeded and a registered instance keeps a snapshot that
\* differs from the new configuration of its name
C6_Witness ==
    /\ last.op = "reload-config"
    /\ Msg("Config reloaded.", "") \in Lines(last.resp)
    /\ \E n \in DOMAIN servers \cap DOMAIN config.servers :
          servers[n].config # config.servers[n]

\* the entries that are not alive and have auto_restart = true
DeadAuto(srv) ==
    {n \in DOMAIN srv : ~srv[n].alive /\ srv[n].config.auto_restart = "Some(true)"}

\* the entry of n after the step is a new process from the current
\* configuration
Respawned(n) ==
    /\ n \in DOMAIN servers'
    /\ \E p \in nextPid..(nextPid' - 1) :
          servers'[n] = NewServer(p, config.servers[n])

\* C7 as stated: a health pass respawns exactly the entries that are not
\* alive and have auto_restart = true, drops those of them whose
\* configuration has vanished, and leaves every other entry untouched.
C7_OriginalStep ==
    HealthPass
    => /\ DOMAIN servers' \subseteq DOMAIN servers
       /\ \A n \in DOMAIN servers :
             IF n \in DeadAuto(servers)
             THEN IF n \in DOMAIN config.servers
                  THEN Respawned(n)
                  ELSE n \notin DOMAIN servers'
             ELSE n \in DOMAIN servers' /\ servers'[n] = servers[n]

C7_Original == [][C7_OriginalStep]_vars

\* C7: a health pass attempts a respawn from the current configuration for
\* exactly the entries that are not alive, have auto_restart = true and
\* have a configuration; an entry whose spawn succeeds is replaced by the
\* new process, an entry whose spawn fails stays registered with its dead
\* process; entries that are not alive, have auto_restart = true and no
\* configuration are dropped; every other entry is untouched.
C7_HealthStep ==
    HealthPass
    => /\ DOMAIN servers' \subseteq DOMAIN servers
       /\ DOMAIN last'.spawns = DeadAuto(servers) \cap DOMAIN config.servers
       /\ \A n \in DOMAIN servers :
             IF n \in DeadAuto(servers)
             THEN IF n \in DOMAIN config.servers
                  THEN IF last'.spawns[n]
                       THEN Respawned(n)
                       ELSE /\ n \in DOMAIN servers'
                            /\ servers'[n].pid = servers[n].pid
                            /\ servers'[n].config = servers[n].config
                            /\ ~servers'[n].alive
                  ELSE n \notin DOMAIN servers'
             ELSE n \in DOMAIN servers' /\ servers'[n] = servers[n]

C7_Health == [][C7_HealthStep]_vars

\* a health pass respawned web, whose process had exited, from a
\* configuration that differs from the snapshot of the old instance
C7_Witness ==
    /\ last.op = "health"
    /\ DOMAIN last.spawns = {"web"}
    /\ last.spawns["web"]
    /\ servers["web"].alive
    /\ servers["web"].pid = 2
    /\ servers["web"].config = config.servers["web"]
    /\ servers["web"].config.auto_restart = "Some(false)"

C9_OriginalStep ==
    /\ Dispatched("foo")
       => /\ last'.wrote = <<Msg("Unrecognized command:", "foo")>> \o list_ops
          /\ servers' = servers
          /\ config' = config
          /\ pc' = "served"
          /\ clients' = clients
          /\ closed' = closed
    /\ \A c \in answered.unknown :
          (pc = "service" /\ idx > Len(clients) /\ pc' # pc)
          => pc' = "health" /\ c \in Lines(clients')

C9_Original == [][C9_OriginalStep]_vars

\* C10 as stated: when kill-daemon is dispatched and the control thread
\* gets through the handler, a stop was attempted on every instance that
\* was registered, the registry is empty and the loop ends.
C10_OriginalStep ==
    (Dispatched("kill-daemon") /\ last'.res # "Blocked")
    => /\ DOMAIN last'.stops = DOMAIN servers
       /\ servers' = EmptyMap
       /\ pc' = "closing"

C10_Original == [][C10_OriginalStep]_vars

\* the sequence q begins with the sequence p
IsPrefix(p, q) == Len(p) <= Len(q) /\ SubSeq(q, 1, Len(p)) = p

C12_OriginalStep ==
    (pc = "service" /\ idx > Len(clients) /\ pc' # pc)
    => /\ pc' = "health"
       /\ \A c \in answered.timeout : c \in Lines(clients')

FailureLine(m, name) ==
    /\ m.name = name
    /\ m.text \in {"No running instance of", "No configuration for",
                   "No configuration for ... Did the configuration change?",
                   "Error starting"}

\* the step wrote a failure line for `name` into the stream, and the client
\* received it when match_op returned Ok
FailureReported(name) ==
    /\ \E m \in Lines(last'.wrote) : FailureLine(m, name)
    /\ last'.res = "Ok" => \E m \in Lines(last'.resp) : FailureLine(m, name)

\* C13 as stated: a dispatched command that fails because the name has no
\* running instance (stop, status, tail, send), because the name has no
\* configuration (start, restart of a name that is not running), or because
\* Server::spawn failed (start, restart) writes a failure line to the
\* issuing client and flushes it; the handler does not end with an error
\* that only the daemon prints.
C13_OriginalStep ==
    \A n \in Names :
       /\ (\E op \in {"stop", "status", "tail", "send"} : Dispatched(op))
          /\ last'.name = n /\ n \notin DOMAIN servers
          => FailureReported(n)
       /\ (Dispatched("start") \/ Dispatched("restart"))
          /\ last'.name = n /\ n \notin DOMAIN servers
          /\ n \notin DOMAIN config.servers
          => FailureReported(n)
       /\ (Dispatched("start") \/ Dispatched("restart"))
          /\ last'.name = n /\ n \in DOMAIN last'.spawns /\ ~last'.spawns[n]
          => FailureReported(n)

C13_Original == [][C13_OriginalStep]_vars

\* the step wrote a status line for the instance `n` into the stream, it is
\* `Status: Stopped` when the process is not alive after the step, and the
\* client received it when match_op returned Ok
StatusReported(n) ==
    /\ \E m \in Lines(last'.wrote) :
          /\ m.text = "Status:" /\ m.name = n
          /\ ~servers'[n].alive => m.status = "Stopped"
    /\ last'.res = "Ok"
       => \E m \in Lines(last'.resp) : m.text = "Status:" /\ m.name = n

\* C14 as stated: `status` of a registered instance, and `instances` for
\* every registered instance, write a status line whatever happens to the
\* read of the accounting data: when the process exits between the liveness
\* probe and that read the line is `Status: Stopped`, and the handler does
\* not return the error of the read.
C14_OriginalStep ==
    /\ Dispatched("status") /\ last'.name \in DOMAIN servers
       => StatusReported(last'.name)
    /\ Dispatched("instances")
       => \A n \in DOMAIN servers : StatusReported(n)

C14_Original == [][C14_OriginalStep]_vars

\* C15 as stated: write_response counts consecutive timeouts, a read that
\* delivers data resetting the counter: when the loop is left, more than
\* max_timeouts timeouts have occurred since the last data was received.
C15_OriginalStep ==
    (pc = "remote" /\ remote.at = "copy" /\ remote'.at = "break")
    => remote'.since > MaxTimeouts

C15_Original == [][C15_OriginalStep]_vars

\* C16 as stated: when the daemon has closed the connection after its
\* answer to kill-daemon and the client has read all of it, zero bytes
\* included, the copy that finds the end of the stream ends write_response:
\* the loop is left and the call returns to its caller.
C16_OriginalStep ==
    (/\ pc = "remote" /\ remote.at = "copy"
     /\ ~remote.open /\ remote.inbox = <<>>
     /\ remote'.at \notin {"copy", "failed", "hung"})
    => remote'.at \in {"break", "idle"}

C16_Original == [][C16_OriginalStep]_vars

C18_Original == (pc = "remote" /\ remote.wd = "aborted") => remote.whole

\* the connections whose index the service phase recorded in `closed`
Recorded == {clients[closed[k] + 1] : k \in 1..Len(closed)}

\* C19 as stated: at the end of a service phase in which the reads of some
\* connections reported closed or failed (and none timed out), the removal
\* takes exactly those connections out of the list, keeps every other one,
\* and the control thread goes on to the health pass.
C19_OriginalStep ==
    (/\ pc = "service" /\ idx > Len(clients) /\ pc' # pc
     /\ answered.timeout = {})
    => /\ pc' = "health"
       /\ Lines(clients') = Lines(clients) \ Recorded
       /\ Len(clients') = Len(clients) - Len(closed)

C19_Original == [][C19_OriginalStep]_vars

\* C20 as stated: clients that stay connected and send nothing do not stall
\* the control loop: every other connected client gets its command
\* dispatched, and health passes are executed again and again.
C20_Original ==
    /\ \A c \in 1..MaxClients :
          (pc # "remote" /\ c \in Lines(clients) /\ c \notin remote.silent)
          ~> (last.client = c /\ last.op \in {"ops", "foo"})
    /\ []<>(last.op = "health")

\* C21 as stated: a call of tail that has entered its drain loop leaves it,
\* whatever the child and its LogCollector thread put into the channel in
\* the meantime.
C21_Original == (pc = "drain") ~> (pc = "drained")

\* the step spawned a process for `n` and registered it
SpawnedFor(n) ==
    /\ n \in DOMAIN servers'
    /\ n \in DOMAIN servers => servers'[n].pid # servers[n].pid

\* C22 as stated: there are never two running processes spawned for the
\* same name: a process is spawned for a name only when the process
\* registered for that name before, if there is one, has exited (it was
\* found dead, or the stop in the same step saw it exit).
C22_OriginalStep ==
    \A n \in Names :
       (SpawnedFor(n) /\ n \in DOMAIN servers)
       => \/ ~servers[n].alive
          \/ n \in DOMAIN last'.stops /\ ~last'.stops[n].alive

C22_Original == [][C22_OriginalStep]_vars

\* the numbers from..to in order
Run(from, to) == [i \in 1..(to - from + 1) |-> from + i - 1]

\* C23: for every instance, under every interleaving of its child, its
\* LogCollector thread and the control thread: the channel holds at most 80
\* lines and no empty one; no line is lost or reordered (what tail has
\* received, then the channel, then the non-empty lines still in the pipe
\* are the lines the child wrote, in order); and the log is a contiguous run
\* of the lines the child wrote.
C23_Channel ==
    \A n \in DOMAIN servers :
       LET instance == servers[n]
           k == Len(instance.log)
       IN  /\ Len(instance.lines) <= MAX_LINES
           /\ \A i \in 1..Len(instance.lines) : instance.lines[i] # 0
           /\ instance.hist \o instance.lines \o NonEmptyLines(instance.pipe)
                 = Run(1, instance.nout)
           /\ k > 0 => /\ instance.log = Run(instance.log[1], instance.log[1] + k - 1)
                       /\ instance.log[k] <= instance.nout

\* the collector is blocked: the channel is full and the next line of the
\* pipe is not empty, tail having put lines into the log before
C23_Witness ==
    /\ pc = "log"
    /\ Len(servers["web"].lines) = MAX_LINES
    /\ servers["web"].pipe # <<>>
    /\ Head(servers["web"].pipe) # 0
    /\ servers["web"].log # <<>>

\* C24 as stated: when send_command or write_response has returned, with
\* Ok or with an I/O error, the flag of the watchdog is false.
C24_Original ==
    (pc = "remote" /\ remote.at \in {"idle", "failed", "exited"}) => ~remote.flag

\* C25: when stop or restart is dispatched for a registered name and the
\* stop does not succeed (Server::stop returns an error, or the handler
\* fails before calling it), the name is not in the registry afterwards, no
\* process is spawned by the handler, and no registry entry holds the
\* process that was registered under the name.
C25_FailedStopStep ==
    \A n \in Names :
       (/\ Dispatched("stop") \/ Dispatched("restart")
        /\ last'.name = n
        /\ n \in DOMAIN servers
        /\ n \in DOMAIN last'.stops => last'.stops[n].status = "Err")
       => /\ n \notin DOMAIN servers'
          /\ last'.spawns = EmptyMap
          /\ nextPid' = nextPid
          /\ \A m \in DOMAIN servers' : servers'[m].pid # servers[n].pid

C25_FailedStop == [][C25_FailedStopStep]_vars

\* restart of web, which is registered and configured, ended after
\* Server::stop returned an error: web is not registered any more
C25_Witness ==
    /\ last.op = "restart"
    /\ last.name = "web"
    /\ "web" \in DOMAIN last.stops
    /\ last.stops["web"].status = "Err"
    /\ "web" \in DOMAIN config.servers
    /\ "web" \notin DOMAIN servers
    /\ pc = "served"

\* C26: when Server::stop returns out of the loop of on_stop commands (a
\* write of a command to the child's stdin failed), it returns an error
\* at once: only the commands before the failed one have been sent, not all
\* of them, no termination and no kill signal is sent, nothing was waited
\* for, and the call leaves the process as it was (running, unless it
\* exited by itself); after stop has returned nothing more is sent.
C26_WriteErrorStep ==
    \A n \in DOMAIN servers :
       LET on_stop == servers[n].config.on_stop
       IN  /\ (pc = "stop" /\ stopping.at = "cmds" /\ stopping'.at = "returned")
              => /\ stopping'.result = "Err"
                 /\ stopping'.sent = stopping.sent
                 /\ IsPrefix(stopping'.sent, on_stop)
                 /\ Len(stopping'.sent) < Len(on_stop)
                 /\ stopping'.waits = <<>>
                 /\ servers' = servers
           /\ (pc = "stop" /\ stopping.at \in {"returned", "dropped"})
              => /\ stopping'.sent = stopping.sent
                 /\ stopping'.waits = stopping.waits
                 /\ stopping'.result = stopping.result

C26_WriteError == [][C26_WriteErrorStep]_vars

\* the second of two on_stop commands could not be written: stop returned
\* the error with only the first one sent, and the process is running
C26_Witness ==
    /\ pc = "stop"
    /\ stopping.at = "returned"
    /\ stopping.result = "Err"
    /\ stopping.sent = <<"save">>
    /\ stopping.waits = <<>>
    /\ \E n \in DOMAIN servers :
          servers[n].config.on_stop = <<"save", "quit">> /\ servers[n].alive

=========================================================================
